---- MODULE Spec2Model ----
(***************************************************************************)
(* wrapio: the Track callback registry and the Handle event tables         *)
(* (wrapio/__init__.py), the helpers.register decorator helper             *)
(* (wrapio/helpers.py) and the Wait schedulers (wrapio/waits.py), as a     *)
(* state machine.                                                          *)
(***************************************************************************)
EXTENDS Integers, Sequences, FiniteSets

\* ------------------------------------------------------------- bounds
\* total number of callbacks held by all lists of all registries
MaxEntries == 2
\* number of one-shot registrations (Track.wait applications) in a run
MaxWaits == 2
\* number of Event objects created in a run
MaxEvents == 1
\* number of class statements run with the metaclass of Handle
MaxClasses == 3
\* number of uses of the event decorator in a run
MaxTagged == 2

\* ------------------------------------------------------------- values
\* Python's None
None == "None"

\* a name is a string, kept as its sequence of characters so that
\* str.replace and str.lower are computed character by character;
\* the names callers pass explicitly
RawNames == { <<"A", " ">>, <<"b">> }

\* the callbacks registered; whether a call of one returns or raises
\* depends on the arguments invoke passes on, see InvokeCall
Funcs == {"fa", "fb"}

\* func.__name__
FuncName(f) == IF f = "fa" THEN <<"a", "_">> ELSE <<"B">>

\* what a call of the callback returns, when it returns
Ret(f) == IF f = "fa" THEN 1 ELSE 2

\* str.lower on one character
LowerChar(c) ==
    CASE c = "A" -> "a"
      [] c = "B" -> "b"
      [] OTHER   -> c

\* name.replace(' ', '_') on one character
ReplaceChar(c) == IF c = " " THEN "_" ELSE c

\* name.replace(' ', '_').lower()
Canonical(name) == [i \in 1..Len(name) |-> LowerChar(ReplaceChar(name[i]))]

AllNames == RawNames \cup {FuncName(f) : f \in Funcs}

\* every key a registry's mapping can hold
Keys == AllNames \cup {Canonical(n) : n \in AllNames}

\* ------------------------------------------------------------- state
VARIABLES
    sync,      \* the sync argument the registry was built with
    skip,      \* Track._skip (not parse)
    points,    \* Track._points, name -> list of callbacks
    last,      \* Track._last, an attribute of the class Track
    events,    \* the Event objects: "free", "lost", "unset" or "set"
    waits,     \* the one-shot registrations and the state of their waiter
    ready,     \* the event loop's queue of callbacks that are due
    inv,       \* the Track.invoke in progress, or the outcome of the last one
    out,       \* the last operation and its outcome
    log,       \* history: per name, the registrations in force, oldest first
    loading,   \* the module's loading dict: event name -> tagged function
    body,      \* the class body being run, if one is
    tables,    \* the class statements run so far; for a class that was
               \* built, its entry of the module's events dict, its bases
               \* and its namespace
    hout,      \* the Handle.invoke just made and its outcome
    rest       \* what the list iterator of an invoke has yet to yield

\* the state of the Handle side of the module
hvars == <<loading, body, tables, hout>>

\* the state of the registry and of its event loop
tvars == <<sync, skip, points, last, events, waits, ready, inv, out, log>>

vars == <<sync, skip, points, last, events, waits, ready, inv, out, log,
          hvars, rest>>

\* ------------------------------------------------------------- helpers
\* the argument of a decorator: a function, or a name string
Fn(f) == [fn |-> f]
Nm(n) == [nm |-> n]
\* an Event object passed where a callback is expected
Ev(e) == [ev |-> e]

\* callable(x)
Callable(x) == "fn" \in DOMAIN x

\* helpers.register(apply, name): the (name, value) pair that apply gets.
\* A callable is registered under its __name__; a name string waits for
\* the value the returned wrapper is applied to.
register(arg, value) ==
    IF Callable(arg) THEN <<FuncName(arg.fn), arg>> ELSE <<arg.nm, value>>

\* a _parse that returns every name as it is
ParseNever(name) == name

\* Track._parse
parse(name) == IF skip THEN name ELSE Canonical(name)

\* value in list
Contains(list, v) == \E i \in 1..Len(list) : list[i] = v

\* list.index(value), 0 when absent
ListIndex(list, v) ==
    IF Contains(list, v)
    THEN CHOOSE i \in 1..Len(list) :
             list[i] = v /\ \A j \in 1..(i - 1) : list[j] # v
    ELSE 0

\* number of times value is in list
Count(list, v) == Cardinality({i \in 1..Len(list) : list[i] = v})

\* list.insert(0, value) in the place of list.append(value)
ListPrepend(list, v) == <<v>> \o list

\* list.append(value)
ListAppend(list, v) == Append(list, v)

\* list.pop() in the place of list.remove(value)
ListPop(list, v) == SubSeq(list, 1, Len(list) - 1)

\* list.clear() in the place of list.remove(value)
ListClear(list, v) == <<>>

\* list.remove(value) when value is in the list: the first match goes
ListRemove(list, v) ==
    LET k == ListIndex(list, v) IN
    [i \in 1..(Len(list) - 1) |-> IF i < k THEN list[i] ELSE list[i + 1]]

\* number of callbacks held by all lists
TotalEntries ==
    Cardinality({<<k, i>> \in Keys \X (1..MaxEntries + 1) :
                    i <= Len(points[k])})

\* history bookkeeping, independent of the list operations above
HistDrop(h, v) ==
    LET k == CHOOSE i \in 1..Len(h) :
                 h[i] = v /\ \A j \in 1..(i - 1) : h[j] # v
    IN SubSeq(h, 1, k - 1) \o SubSeq(h, k + 1, Len(h))

IdleInv ==
    [pc |-> "idle", key |-> <<>>, called |-> <<>>, res |-> <<>>,
     todo |-> {}, err |-> "ok", failed |-> 0, snap |-> <<>>]

\* ev: the Event a Track.wait returned, 0 when none
Out(op, ev, err) ==
    [op |-> op, ev |-> ev, err |-> err, f |-> None, key |-> <<>>, named |-> FALSE]

\* the outcome of track.remove(f) (named = FALSE) or track.remove(f, name),
\* which looked for f under key
OutRemove(f, key, named, err) ==
    [op |-> "remove", ev |-> 0, err |-> err, f |-> f, key |-> key, named |-> named]

\* no Track.invoke is running its fan-out or awaiting its aggregate
Quiet == inv.pc \in {"idle", "done"}

\* ------------------------------------------------------------- Handle values
\* the names used for events and for the functions of class bodies
HNames == {"x", "y"}

\* a dict keyed by names, as the function on its keys; {} is the empty one
EmptyDict == [n \in {} |-> None]

\* dict.update(other)
DictUpdate(d, other) ==
    [n \in DOMAIN d \cup DOMAIN other |->
        IF n \in DOMAIN other THEN other[n] ELSE d[n]]

\* del d[key]
DictDel(d, key) == [n \in DOMAIN d \ {key} |-> d[n]]

\* a function object: the def statement that made it, which is the k-th
\* decorated def of the class statement cls (0: outside any class body),
\* and its __name__.  Two function objects are the same object (is) when
\* they are equal here
Func(cls, k, name) == [cls |-> cls, k |-> k, def |-> name]

\* no function
NoFunc == Func(0, 0, "")

\* no class body is being run
NoBody == [open |-> FALSE, bases |-> <<>>, space |-> EmptyDict,
           own |-> EmptyDict, k |-> 0]

\* no Handle.invoke was made
NoInvoke == [cls |-> 0, name |-> "", ran |-> NoFunc, err |-> "ok"]

\* the iteration of no invoke
NoRest == [pc |-> "idle", key |-> <<>>, todo |-> <<>>]

\* the module as imported: loading = {}; Handle itself is built with an
\* empty table, and stands for the base of a class that names no other
HandleInit ==
    /\ loading = EmptyDict
    /\ body = NoBody
    /\ tables = <<>>
    /\ hout = NoInvoke

\* ------------------------------------------------------------- Init
\* Track(sync = True, parse = p) or Track(sync = False, parse = p)
TrackInit(p) ==
    /\ sync \in BOOLEAN
    /\ skip = ~p
    /\ points = [k \in Keys |-> <<>>]
    /\ last = None
    /\ events = [e \in 1..MaxEvents |-> "free"]
    /\ waits = <<>>
    /\ ready = <<>>
    /\ inv = IdleInv
    /\ out = Out("init", 0, "ok")
    /\ log = [k \in Keys |-> <<>>]
    /\ HandleInit
    /\ rest = NoRest

\* a registry built with the default parse = True
Init == TrackInit(TRUE)

\* a registry built with parse = True or with parse = False
InitParse == \E p \in BOOLEAN : TrackInit(p)

\* ------------------------------------------------------------- Track.call
\* track.call(func) and track.call(name)(func)
CallApply(arg, value) ==
    LET nv == register(arg, value)
        key == parse(nv[1])
    IN /\ points' = [points EXCEPT ![key] = ListAppend(@, nv[2].fn)]
       /\ log' = [log EXCEPT ![key] = Append(@, nv[2].fn)]
       /\ out' = Out("call", 0, "ok")

Call(arg, value) ==
    /\ Quiet
    /\ TotalEntries < MaxEntries
    /\ CallApply(arg, value)
    /\ inv' = IdleInv
    /\ UNCHANGED <<hvars, rest, sync, skip, last, events, waits, ready>>

\* ------------------------------------------------------------- Track.remove
\* the decorator argument of remove: name or func
RemoveArg(f, name) == IF name # <<>> THEN Nm(name) ELSE Fn(f)

\* track.remove(func) and track.remove(func, name); name = <<>> stands for
\* an omitted (None) or empty name, both falsy
RemoveApply(f, name) ==
    LET nv == register(RemoveArg(f, name), Fn(f))
        key == parse(nv[1])
    IN IF Contains(points[key], nv[2].fn)
       THEN /\ points' = [points EXCEPT ![key] = ListRemove(@, nv[2].fn)]
            /\ log' = [log EXCEPT ![key] = HistDrop(@, nv[2].fn)]
            /\ out' = OutRemove(f, key, name # <<>>, "ok")
       ELSE \* list.remove(x): x not in list
            /\ out' = OutRemove(f, key, name # <<>>, "ValueError")
            /\ UNCHANGED <<points, log>>

Remove(f, name) ==
    /\ Quiet
    /\ RemoveApply(f, name)
    /\ inv' = IdleInv
    /\ UNCHANGED <<hvars, rest, sync, skip, last, events, waits, ready>>

\* ------------------------------------------------------------- waits.py
\* Threading._make: the name threading_ is not defined (waits.py imports
\* threading), so building the thread raises NameError
ThreadingMake == "NameError"

\* Asyncio._make: create_task(event.wait()) and add_done_callback
AsyncioMake == "ok"

\* self._schedule = waits.Threading() if sync else waits.Asyncio()
Make == IF sync THEN ThreadingMake ELSE AsyncioMake

\* the Event objects callers hold are asyncio.Event objects, made by the
\* Asyncio scheduler; only a registry with that scheduler is given one
Accepts(e) == ~sync /\ events[e] \in {"unset", "set"}

FreeEvents == {e \in 1..MaxEvents : events[e] = "free"}

\* self._Event()
NewEvent == CHOOSE e \in FreeEvents : \A d \in FreeEvents : e <= d

\* Wait.__call__: the event the waiter is made for
WaitEvent(given) == IF given = 0 THEN NewEvent ELSE given

\* a waiter: the task around event.wait() with manage as done callback.
\* st is "scheduled" (a step of the task is due), "waiting" (suspended
\* in event.wait()), "finished" (the done callback is due) or "cleaned"
Waiter(key, func, e) ==
    [key |-> key, f |-> func, ev |-> e, st |-> "scheduled", runs |-> 0]

\* ------------------------------------------------------------- Track.wait
\* the inner apply(func, last) of Track.wait
WaitInner(key, func, given) ==
    /\ points' = [points EXCEPT ![key] = ListAppend(@, func)]
    /\ log' = [log EXCEPT ![key] = Append(@, func)]
    /\ IF Make = "ok"
       THEN LET e == WaitEvent(given) IN
            /\ events' = [events EXCEPT ![e] = IF @ = "free" THEN "unset" ELSE @]
            /\ waits' = Append(waits, Waiter(key, func, e))
            /\ ready' = Append(ready, Len(waits) + 1)
            /\ last' = IF given = 0 THEN func ELSE last
            /\ out' = Out("wait", e, "ok")
       ELSE \* _make raised: no waiter, no event returned, _last not set;
            \* the Event made by Wait.__call__ goes with the raising frame
            /\ out' = Out("wait", 0, Make)
            /\ UNCHANGED <<events, waits, ready, last>>

\* track.wait(func), track.wait(name)(func) and track.wait(name)(event)
WaitApply(arg, value) ==
    LET nv == register(arg, value)
        key == parse(nv[1])
    IN IF Callable(nv[2])
       THEN WaitInner(key, nv[2].fn, 0)
       ELSE WaitInner(key, last, nv[2].ev)

Wait(arg, value) ==
    /\ Quiet
    /\ TotalEntries < MaxEntries
    /\ IF Callable(value)
       THEN sync \/ (FreeEvents # {} /\ Len(waits) < MaxWaits)
       ELSE Accepts(value.ev) /\ Len(waits) < MaxWaits
    /\ WaitApply(arg, value)
    /\ inv' = IdleInv
    /\ UNCHANGED <<hvars, rest, sync, skip>>

\* ------------------------------------------------------------- Event.set
\* a set that wakes the first of the tasks suspended on the event only
FireWakeFirst(e, i) ==
    /\ events[e] = "unset" /\ waits[i].ev = e /\ waits[i].st = "waiting"
    /\ \A j \in 1..(i - 1) : waits[j].ev # e

\* a set that wakes every task made for the event, whatever its state
FireWakeAll(e, i) == waits[i].ev = e

\* asyncio.Event.set: the first set resolves the future of every task that
\* is suspended in event.wait(), which makes a step of the task due; a
\* later set finds the flag raised and does nothing
FireWake(e, i) == events[e] = "unset" /\ waits[i].ev = e /\ waits[i].st = "waiting"

\* the tasks a set of the event wakes, oldest first
Woken(e) == SelectSeq([i \in 1..Len(waits) |-> i], LAMBDA i : FireWake(e, i))

Fire(e) ==
    /\ Quiet
    /\ events[e] \in {"unset", "set"}
    /\ waits' = [i \in 1..Len(waits) |->
                    IF FireWake(e, i) THEN [waits[i] EXCEPT !.st = "scheduled"]
                    ELSE waits[i]]
    /\ ready' = ready \o Woken(e)
    /\ events' = [events EXCEPT ![e] = "set"]
    /\ out' = Out("fire", 0, "ok")
    /\ inv' = IdleInv
    /\ UNCHANGED <<hvars, rest, sync, skip, points, last, log>>

\* ------------------------------------------------------------- event loop
\* an event.wait() that returns whatever the flag says
EventWaitAtOnce(r) == TRUE

\* an event.wait() that suspends whatever the flag says
EventWaitNever(r) == FALSE

\* the coroutine event.wait() returns once the flag is raised
EventWaitReturns(r) == events[r.ev] = "set"

\* the waiter once its done callback has run; runs counts the runs
Cleaned(r) == [r EXCEPT !.st = "cleaned", !.runs = @ + 1]

\* manage = functools.partial(callbacks.remove, func), run as the task's
\* done callback; a ValueError goes to the loop's exception handler
Manage(w) ==
    LET r == waits[w] IN
    /\ IF Contains(points[r.key], r.f)
       THEN /\ points' = [points EXCEPT ![r.key] = ListRemove(@, r.f)]
            /\ log' = [log EXCEPT ![r.key] = HistDrop(@, r.f)]
            /\ out' = Out("loop", 0, "ok")
       ELSE /\ out' = Out("loop", 0, "ValueError")
            /\ UNCHANGED <<points, log>>
    /\ waits' = [waits EXCEPT ![w] = Cleaned(r)]
    /\ ready' = Tail(ready)

\* one step of the task around event.wait(): it suspends, or it finishes
\* and its done callback becomes due
TaskStep(w) ==
    LET r == waits[w] IN
    /\ IF EventWaitReturns(r)
       THEN /\ waits' = [waits EXCEPT ![w].st = "finished"]
            /\ ready' = Append(Tail(ready), w)
       ELSE /\ waits' = [waits EXCEPT ![w].st = "waiting"]
            /\ ready' = Tail(ready)
    /\ out' = Out("loop", 0, "ok")
    /\ UNCHANGED <<points, log>>

\* the loop runs the callback at the head of its queue.  It cannot run
\* while Track.invoke is inside its fan-out; the steps it takes while the
\* caller awaits the aggregate touch nothing the aggregate reads, and are
\* taken after it
RunOne ==
    /\ ready # <<>>
    /\ Quiet
    /\ IF waits[Head(ready)].st = "finished"
       THEN Manage(Head(ready))
       ELSE TaskStep(Head(ready))
    /\ UNCHANGED <<hvars, rest, sync, skip, last, events, inv>>

\* ------------------------------------------------------------- Track.invoke
\* name = self._parse(name); callbacks = self._points[name]
InvokeBegin(name) ==
    /\ Quiet
    /\ inv' = [pc |-> "fanout", key |-> parse(name), called |-> <<>>,
               res |-> <<>>, todo |-> {}, err |-> "ok", failed |-> 0,
               snap |-> log[parse(name)]]
    /\ out' = Out("invoke", 0, "ok")
    /\ UNCHANGED <<hvars, rest, sync, skip, points, last, events, waits, ready, log>>

\* a fan-out that notes the error and goes on with the next callback
AfterRaiseGoOn(err) == [inv EXCEPT !.err = err, !.failed = Len(inv.called) + 1]

\* what the generator does after a callback raised: the error leaves
\* tuple(...) and invoke, no further callback is called.  failed is the
\* place in the list of the call that raised
AfterRaise(err) ==
    [inv EXCEPT !.pc = "done", !.err = err, !.failed = Len(inv.called) + 1]

\* callback(*args, **kwargs) for the next callback of the list; raises
\* says whether this call, with these arguments, raises.  With the
\* Threading scheduler the callback runs and returns or raises; with the
\* Asyncio scheduler it is a coroutine function and the call returns a
\* coroutine, which has not run yet.  Calling None raises TypeError
CallOne(f, raises) ==
    LET called == Append(inv.called, f) IN
    IF f = None
    THEN [AfterRaise("TypeError") EXCEPT !.called = called]
    ELSE IF sync
         THEN IF raises
              THEN [AfterRaise("CallbackError") EXCEPT !.called = called]
              ELSE [inv EXCEPT !.called = called, !.res = Append(@, Ret(f))]
         ELSE [inv EXCEPT !.called = called, !.res = Append(@, 0)]

\* the next callback the iteration over the list yields, None when the
\* iteration is over
NextIndex == Len(inv.called) + 1

InvokeCall(raises) ==
    /\ inv.pc = "fanout"
    /\ NextIndex <= Len(points[inv.key])
    /\ raises => sync
    /\ inv' = CallOne(points[inv.key][NextIndex], raises)
    /\ UNCHANGED <<hvars, rest, sync, skip, points, last, events, waits, ready, out, log>>

\* the tuple is complete: it is returned (Threading), or gathered into
\* one future (Asyncio); gather of nothing is already done
InvokeReturn ==
    /\ inv.pc = "fanout"
    /\ NextIndex > Len(points[inv.key])
    /\ inv' = IF sync \/ inv.called = <<>>
              THEN [inv EXCEPT !.pc = "done"]
              ELSE [inv EXCEPT !.pc = "gather", !.todo = 1..Len(inv.called)]
    /\ UNCHANGED <<hvars, rest, sync, skip, points, last, events, waits, ready, out, log>>

\* asyncio.gather: the i-th coroutine completes; its result takes the i-th
\* place of the aggregate, its exception becomes the aggregate's at once
GatherOne(i, raises) ==
    IF raises
    THEN [inv EXCEPT !.pc = "done", !.err = "CallbackError", !.todo = @ \ {i}]
    ELSE [inv EXCEPT !.res[i] = Ret(inv.called[i]), !.todo = @ \ {i},
                     !.pc = IF inv.todo = {i} THEN "done" ELSE "gather"]

GatherStep(i, raises) ==
    /\ inv.pc = "gather"
    /\ i \in inv.todo
    /\ inv' = GatherOne(i, raises)
    /\ UNCHANGED <<hvars, rest, sync, skip, points, last, events, waits, ready, out, log>>

\* ------------------------------------------------------------- Next
Next ==
    \/ \E f \in Funcs : Call(Fn(f), Fn(f))
    \/ \E n \in RawNames, f \in Funcs : Call(Nm(n), Fn(f))
    \/ \E f \in Funcs : Remove(f, <<>>)
    \/ \E f \in Funcs, n \in RawNames : Remove(f, n)
    \/ \E f \in Funcs : Wait(Fn(f), Fn(f))
    \/ \E n \in RawNames, f \in Funcs : Wait(Nm(n), Fn(f))
    \/ \E n \in RawNames, e \in 1..MaxEvents : Wait(Nm(n), Ev(e))
    \/ \E e \in 1..MaxEvents : Fire(e)
    \/ RunOne
    \/ \E n \in RawNames : InvokeBegin(n)
    \/ \E raises \in BOOLEAN : InvokeCall(raises)
    \/ InvokeReturn
    \/ \E i \in 1..MaxEntries, raises \in BOOLEAN : GatherStep(i, raises)

Spec == Init /\ [][Next]_vars

InvokeRuns ==
    \/ \E raises \in BOOLEAN : InvokeCall(raises)
    \/ InvokeReturn
    \/ \E i \in 1..MaxEntries, raises \in BOOLEAN : GatherStep(i, raises)

\* the thread inside invoke keeps running, and the caller returns to the
\* event loop again and again, which then runs what is due
FairSpec == Spec /\ SF_vars(RunOne) /\ WF_vars(InvokeRuns)

\* ------------------------------------------------------------- other registries
\* another Track instance, built with sync = False, runs wait(name)(func):
\* its inner apply ends with self.__class__._last = staticmethod(func),
\* which sets the attribute of the class that every instance reads
OtherWait(f) ==
    /\ Quiet
    /\ last' = f
    /\ UNCHANGED <<hvars, rest, sync, skip, points, events, waits, ready,
                   inv, out, log>>

NextShared ==
    \/ Next
    \/ \E f \in Funcs : OtherWait(f)

\* the registry beside other registries of the same program
SharedSpec == Init /\ [][NextShared]_vars

\* ------------------------------------------------------------- callbacks that act
\* callback(*args, **kwargs) where the callback, before it returns, runs
\* track.remove(f, name) for a callback that is registered.  With the
\* Threading scheduler the callback runs inside the fan-out; the iteration
\* of invoke goes on over the list as the removal left it
InvokeCallRemove(f, name) ==
    /\ inv.pc = "fanout"
    /\ NextIndex <= Len(points[inv.key])
    /\ sync
    /\ Contains(points[parse(register(RemoveArg(f, name), Fn(f))[1])], f)
    /\ RemoveApply(f, name)
    /\ inv' = CallOne(points[inv.key][NextIndex], FALSE)
    /\ UNCHANGED <<hvars, rest, sync, skip, last, events, waits, ready>>

NextReentrant ==
    \/ Next
    \/ \E f \in Funcs : InvokeCallRemove(f, <<>>)
    \/ \E f \in Funcs, n \in RawNames : InvokeCallRemove(f, n)

\* the registry with callbacks that remove callbacks while they are called
ReentrantSpec == Init /\ [][NextReentrant]_vars

\* ------------------------------------------------------------- the iteration
\* One Track.invoke whose callbacks register callbacks, followed through
\* its list iterator: todo is the part of the list the iterator has yet
\* to yield.  A callback appended to the list while the iteration runs is
\* appended to todo; the entries the iterator has passed are read by this
\* invoke no more and are left out, so that the lists in points stand
\* for the lists as they were when the invoke began.

\* name = self._parse(name); callbacks = self._points[name]; the
\* generator starts at the head of the list
IterBegin(name) ==
    /\ rest.pc = "idle"
    /\ rest' = [pc |-> "run", key |-> parse(name), todo |-> points[parse(name)]]
    /\ UNCHANGED <<hvars, tvars>>

\* what the iterator has yet to yield after the callback it yielded ran
\* track.call(name)(g) under the name of the invoke; None: it ran no such
\* thing.  A coroutine function (Asyncio scheduler) runs nothing when it
\* is called
TodoAfter(g) ==
    IF g = None \/ ~sync THEN Tail(rest.todo) ELSE Append(Tail(rest.todo), g)

\* callback(*args, **kwargs) for the next callback, which returns
IterCall(g) ==
    /\ rest.pc = "run"
    /\ rest.todo # <<>>
    /\ rest' = [rest EXCEPT !.todo = TodoAfter(g)]
    /\ UNCHANGED <<hvars, tvars>>

\* the iterator is exhausted: tuple(...) is complete and invoke returns
IterEnd ==
    /\ rest.pc = "run"
    /\ rest.todo = <<>>
    /\ rest' = [rest EXCEPT !.pc = "done"]
    /\ UNCHANGED <<hvars, tvars>>

\* the thread inside invoke
IterRuns ==
    \/ \E g \in Funcs \cup {None} : IterCall(g)
    \/ IterEnd

LoopNext ==
    \/ \E f \in Funcs : rest.pc = "idle" /\ Call(Fn(f), Fn(f))
    \/ \E n \in RawNames, f \in Funcs : rest.pc = "idle" /\ Call(Nm(n), Fn(f))
    \/ \E n \in RawNames : IterBegin(n)
    \/ \E g \in Funcs \cup {None} : IterCall(g)
    \/ IterEnd

\* registrations, then one invoke; the thread inside invoke keeps running
LoopSpec == Init /\ [][LoopNext]_vars /\ WF_vars(IterRuns)

\* ------------------------------------------------------------- event
\* the classes built so far
Classes == {c \in 1..Len(tables) : tables[c].ok}

\* the uses of event in class bodies so far
RECURSIVE TaggedIn(_)
TaggedIn(c) == IF c = 0 THEN 0 ELSE tables[c].k + TaggedIn(c - 1)

Tagged == body.k + TaggedIn(Len(tables))

\* the dict that holds value under key and nothing else
Entry(key, value) == [n \in {key} |-> value]

\* helpers.register(apply, name) as event uses it: the (name, value)
\* pair that apply gets, the function's __name__ when event decorates it
\* directly
registerEvent(arg, value) ==
    IF Callable(arg) THEN <<arg.fn.def, arg.fn>> ELSE <<arg.nm, value.fn>>

\* event: loading[name] = value
EventApply(arg, value) ==
    LET nv == registerEvent(arg, value) IN
    loading' = DictUpdate(loading, Entry(nv[1], nv[2]))

\* the function object the next decorated def of the running body makes
NewFunc(m) == Func(Len(tables) + 1, body.k + 1, m)

\* a class statement starts to run its body; bases names classes built
\* by HandleMeta, Handle alone when it is empty
BodyBegin(bases) ==
    /\ ~body.open
    /\ Len(tables) < MaxClasses
    /\ body' = [NoBody EXCEPT !.open = TRUE, !.bases = bases]
    /\ hout' = NoInvoke
    /\ UNCHANGED <<loading, tables, tvars, rest>>

\* in the body: @event def m (arg is the function) or @event(n) def m
\* (arg is the name n); the def binds m in the namespace of the body
BodyEvent(arg, m) ==
    /\ body.open
    /\ Tagged < MaxTagged
    /\ EventApply(arg, Fn(NewFunc(m)))
    /\ body' = [body EXCEPT
                   !.space = DictUpdate(@, Entry(m, NewFunc(m))),
                   !.own = DictUpdate(@, Entry(registerEvent(arg, Fn(NewFunc(m)))[1],
                                               NewFunc(m))),
                   !.k = @ + 1]
    /\ UNCHANGED <<tables, hout, tvars, rest>>

\* @event def m where no class body is running
StrayEvent(m) ==
    /\ ~body.open
    /\ EventApply(Fn(Func(0, 1, m)), Fn(Func(0, 1, m)))
    /\ hout' = NoInvoke
    /\ UNCHANGED <<body, tables, tvars, rest>>

\* ------------------------------------------------------------- HandleMeta
\* for base in bases: store.update(events[base])
RECURSIVE Gather(_)
Gather(bases) ==
    IF bases = <<>> THEN EmptyDict
    ELSE DictUpdate(Gather(SubSeq(bases, 1, Len(bases) - 1)),
                    tables[bases[Len(bases)]].store)

\* store.update(loading) on the gathered tables
Store(bases) == DictUpdate(Gather(bases), loading)

\* the namespace less every key that store holds with the very object
\* the namespace binds to it
Strip(space, store) ==
    [n \in {x \in DOMAIN space :
               ~(x \in DOMAIN store /\ space[x] = store[x])} |-> space[n]]

\* a class statement that raised: no class, no table
Failed == [ok |-> FALSE, bases |-> <<>>, store |-> EmptyDict,
           space |-> EmptyDict, own |-> EmptyDict, k |-> body.k]

\* the class HandleMeta.__new__ returns
Built ==
    [ok |-> TRUE, bases |-> body.bases, store |-> Store(body.bases),
     space |-> Strip(body.space, Store(body.bases)),
     own |-> body.own, k |-> body.k]

\* HandleMeta.__new__ at the end of the class body.  type.__new__ may
\* raise (no consistent method resolution order, a slot that conflicts
\* with a class variable, ...): loading.clear() and events[self] = store
\* come after it and are not reached then
ClassNew(raises) ==
    /\ body.open
    /\ IF raises
       THEN /\ tables' = Append(tables, Failed)
            /\ UNCHANGED loading
       ELSE /\ tables' = Append(tables, Built)
            /\ loading' = EmptyDict
    /\ body' = NoBody
    /\ UNCHANGED <<hout, tvars, rest>>

\* ------------------------------------------------------------- Handle.invoke
\* a lookup that walks on to the tables of the other classes
LookupAny(c, n) ==
    IF \E d \in Classes : n \in DOMAIN tables[d].store
    THEN tables[CHOOSE d \in Classes : n \in DOMAIN tables[d].store].store[n]
    ELSE NoFunc

\* events[self.__class__][name], NoFunc for the KeyError
Lookup(c, n) ==
    IF n \in DOMAIN tables[c].store THEN tables[c].store[n] ELSE NoFunc

\* instance.invoke(name) on an instance of class c
HandleInvoke(c, n) ==
    /\ ~body.open
    /\ c \in Classes
    /\ hout' = [cls |-> c, name |-> n, ran |-> Lookup(c, n),
                err |-> IF Lookup(c, n) = NoFunc THEN "KeyError" ELSE "ok"]
    /\ UNCHANGED <<loading, body, tables, tvars, rest>>

\* the bases a class statement may name: one or two classes built so far
BaseLists ==
    {<<>>} \cup {<<c>> : c \in Classes}
           \cup {<<c, d>> : <<c, d>> \in {p \in Classes \X Classes : p[1] # p[2]}}

HandleNext ==
    \/ \E bases \in BaseLists : BodyBegin(bases)
    \/ \E m \in HNames : BodyEvent(Fn(NewFunc(m)), m)
    \/ \E n \in HNames, m \in HNames : BodyEvent(Nm(n), m)
    \/ \E m \in HNames : StrayEvent(m)
    \/ \E raises \in BOOLEAN : ClassNew(raises)
    \/ \E c \in 1..MaxClasses, n \in HNames : HandleInvoke(c, n)

\* class statements, uses of event and Handle.invoke, beside a registry
\* that is left alone
HandleStart == TrackInit(TRUE) /\ ~sync

HandleSpec == HandleStart /\ [][HandleNext]_vars

\* registries built with either value of parse
ParseSpec == InitParse /\ [][Next]_vars

\* ------------------------------------------------------------- properties
\* the key remove(func) and call(func) derive from the function alone
OwnKey(f) == parse(FuncName(f))

WaitIds == 1..MaxWaits

Attached(i) == i <= Len(waits)

\* the i-th waiter exists and is in state st
InState(i, st) == IF Attached(i) THEN waits[i].st = st ELSE FALSE

\* the i-th waiter exists and its Event is set
Fired(i) == IF Attached(i) THEN events[waits[i].ev] = "set" ELSE FALSE

\* the i-th waiter has cleaned up, in one run of its done callback
CleanedOnce(i) ==
    IF Attached(i) THEN waits[i].st = "cleaned" /\ waits[i].runs = 1 ELSE FALSE

\* the i-th and the j-th waiter exist, for one Event, which is set
FiredTogether(i, j) ==
    IF Attached(i) /\ Attached(j)
    THEN waits[i].ev = waits[j].ev /\ events[waits[i].ev] = "set"
    ELSE FALSE

\* the i-th waiter has just been made, for an Event that is set
MadeLate(i) ==
    IF out.op = "wait" /\ out.err = "ok" /\ Len(waits) = i
    THEN events[waits[i].ev] = "set"
    ELSE FALSE

InvokeOk == inv.pc = "done" /\ inv.err = "ok"

\* C1: the results of invoke are those of the callbacks registered under
\* the name, in the order they were registered: the tuple in synchronous
\* mode, the places of the gathered aggregate in concurrent mode.
ResultsInRegistrationOrder ==
    InvokeOk =>
        /\ inv.called = inv.snap
        /\ Len(inv.res) = Len(inv.snap)
        /\ \A i \in 1..Len(inv.snap) : inv.res[i] = Ret(inv.snap[i])

\* an invoke returned the results of fb and fa, registered in that order
ResultsInRegistrationOrderWitness ==
    InvokeOk /\ inv.snap = <<"fb", "fa">> /\ inv.res = <<2, 1>>

RemoveAbsentIsSilent == out.op = "remove" => out.err = "ok"

CleanupRunsOnce ==
    /\ [](\A i \in WaitIds : Attached(i) => waits[i].runs <= 1)
    /\ \A i \in WaitIds : Fired(i) ~> CleanedOnce(i)
    /\ [][(out'.op = "fire" /\ events' = events) =>
             (/\ points' = points /\ waits' = waits /\ ready' = ready
              /\ last' = last /\ out'.err = "ok")]_vars

\* an Event was set again after the cleanup of its waiter had run
CleanupRunsOnceWitness ==
    /\ out.op = "fire"
    /\ \E i \in WaitIds :
          Attached(i) /\ waits[i].st = "cleaned" /\ waits[i].runs = 1

\* C7: wait(name)(event) returns the event it was given and adds one
\* waiter for it, leaving the others alone, and once the event is set
\* every waiter made for it cleans up, under whichever name it removes.
SharedSignal ==
    /\ [][\A n \in RawNames, e \in 1..MaxEvents :
             Wait(Nm(n), Ev(e)) =>
                 /\ out'.ev = e /\ out'.err = "ok"
                 /\ Len(waits') = Len(waits) + 1
                 /\ waits'[Len(waits')].ev = e
                 /\ waits'[Len(waits')].key = parse(n)
                 /\ SubSeq(waits', 1, Len(waits)) = waits]_vars
    /\ \A i, j \in WaitIds :
          FiredTogether(i, j) ~> (InState(i, "cleaned") /\ InState(j, "cleaned"))

\* two waiters of one event, registered under different names, have both
\* cleaned up and both lists are empty
SharedSignalWitness ==
    /\ Len(waits) = 2
    /\ waits[1].ev = waits[2].ev /\ waits[1].key # waits[2].key
    /\ waits[1].st = "cleaned" /\ waits[2].st = "cleaned"
    /\ \A k \in Keys : points[k] = <<>>

\* C8: a waiter made for an Event that is set is never left suspended,
\* and it cleans up with no further set.
NoMissedWakeup ==
    /\ [](\A i \in WaitIds :
             (Attached(i) /\ waits[i].st = "waiting") => events[waits[i].ev] = "unset")
    /\ \A i \in WaitIds : MadeLate(i) ~> InState(i, "cleaned")

\* a second waiter has just been made for an Event that was set so long
\* ago that its first waiter has cleaned up
NoMissedWakeupWitness == MadeLate(2) /\ InState(1, "cleaned")

\* C9: with either scheduler wait(name)(callback) raises nothing, returns
\* the Event and has started one waiter for it.
WaitStartsWaiter ==
    out.op = "wait" =>
        /\ out.err = "ok"
        /\ out.ev # 0
        /\ Len(waits) >= 1
        /\ waits[Len(waits)].ev = out.ev

\* C10: in synchronous mode, when a callback raises, invoke ends with that
\* error at once: the call that raised is the last one made, the calls
\* made are the callbacks of the list up to that one, each once, in order,
\* and the ones before it returned.
FirstFailureHalts ==
    (sync /\ inv.pc = "done" /\ inv.err = "CallbackError") =>
        /\ inv.failed = Len(inv.called)
        /\ inv.called = SubSeq(inv.snap, 1, inv.failed)
        /\ Len(inv.res) = inv.failed - 1
        /\ \A i \in 1..(inv.failed - 1) : inv.res[i] = Ret(inv.called[i])

\* the first of two callbacks raised and the second was not called
FirstFailureHaltsWitness ==
    /\ sync /\ inv.pc = "done" /\ inv.err = "CallbackError"
    /\ Len(inv.snap) = 2 /\ inv.failed = 1 /\ Len(inv.called) = 1

\* the canonical form of a character: a space becomes an underscore, a
\* capital its small letter
Fold(c) ==
    CASE c = " " -> "_"
      [] c = "A" -> "a"
      [] c = "B" -> "b"
      [] OTHER   -> c

\* two names have the same canonical form
SameCanonical(n, m) ==
    Len(n) = Len(m) /\ \A i \in 1..Len(n) : Fold(n[i]) = Fold(m[i])

\* the keys of the lists a registry may hold for the name: with
\* normalization the keys of the same canonical form, without it the
\* name itself
ListsOf(n) ==
    IF skip THEN {n} ELSE {k \in Keys : SameCanonical(k, n)}

\* the one list the name reaches: all names of its canonical form reach
\* it with normalization, the identical name alone without
Reaches(n, k) ==
    /\ k \in ListsOf(n)
    /\ \A m \in AllNames :
          (IF skip THEN m = n ELSE SameCanonical(m, n)) => k \in ListsOf(m)
    /\ \A j \in Keys \ {k} : j \in ListsOf(n) => points[j] = <<>>

\* C11: with normalization, names of the same canonical form reach the
\* same list in call, wait, remove and invoke; without it a name reaches
\* the list of the identical string only; the choice made when the
\* registry was built never changes.
NamesReachLists ==
    /\ [][skip' = skip]_vars
    /\ [][\A n \in RawNames, f \in Funcs :
             Call(Nm(n), Fn(f)) =>
                 \E k \in Keys :
                    /\ Reaches(n, k)
                    /\ points' = [points EXCEPT ![k] = Append(@, f)]]_vars
    /\ [][\A f \in Funcs :
             Call(Fn(f), Fn(f)) =>
                 \E k \in Keys :
                    /\ Reaches(FuncName(f), k)
                    /\ points' = [points EXCEPT ![k] = Append(@, f)]]_vars
    /\ [][\A n \in RawNames, f \in Funcs :
             Wait(Nm(n), Fn(f)) =>
                 \E k \in Keys :
                    /\ Reaches(n, k)
                    /\ points' = [points EXCEPT ![k] = Append(@, f)]]_vars
    /\ [][\A n \in RawNames, f \in Funcs :
             Remove(f, n) =>
                 \E k \in Keys :
                    /\ Reaches(n, k)
                    /\ out'.key = k
                    /\ \A j \in Keys \ {k} : points'[j] = points[j]
                    /\ Count(points'[k], f) = Count(points[k], f)
                           - (IF Contains(points[k], f) THEN 1 ELSE 0)]_vars
    /\ [][\A n \in RawNames :
             InvokeBegin(n) =>
                 \E k \in Keys : Reaches(n, k) /\ inv'.key = k]_vars
    /\ [][\A raises \in BOOLEAN :
             InvokeCall(raises) =>
                 /\ Len(inv'.called) = Len(inv.called) + 1
                 /\ inv'.called[Len(inv'.called)]
                        = points[inv.key][Len(inv'.called)]]_vars

\* with normalization, an invoke under the name "A " called fb, which was
\* registered under "A ", and fa, which is registered under "a_"
NamesReachListsWitness ==
    /\ ~skip
    /\ InvokeOk
    /\ inv.key = <<"a", "_">>
    /\ inv.called = <<"fb", "fa">>

\* the class statement that ends now builds a class
Builds == ClassNew(FALSE)

\* the class that a class statement ending now builds
NewClass == Len(tables) + 1

\* C12: a class B with the one base A runs A's handler for every name of
\* A's table that the body of B does not tag and its own handler for
\* every name that it tags; building B leaves the table of A as it was,
\* and invoke on an instance runs the handler of the table of its class.
HandlerOfNearest ==
    [][/\ \A a \in Classes :
             (Builds /\ body.bases = <<a>>) =>
                 /\ \A n \in DOMAIN tables[a].store :
                        /\ n \in DOMAIN tables'[NewClass].store
                        /\ tables'[NewClass].store[n] =
                               IF n \in DOMAIN body.own
                               THEN body.own[n]
                               ELSE tables[a].store[n]
                 /\ tables'[a] = tables[a]
       /\ \A c \in Classes, n \in HNames :
             (HandleInvoke(c, n) /\ n \in DOMAIN tables[c].store) =>
                 (hout'.ran = tables[c].store[n] /\ hout'.err = "ok")]_vars

\* the bases, in the order listed, whose table holds the name
Providers(bases, n) ==
    {i \in 1..Len(bases) : n \in DOMAIN tables[bases[i]].store}

\* the last of the bases that provide the name
LastProvider(bases, n) ==
    CHOOSE i \in Providers(bases, n) : \A j \in Providers(bases, n) : j <= i

\* C13: the table of a class holds, for every name, the function the body
\* tagged under it, else the entry of the last listed base whose table
\* holds the name, and no other name.
TableIsMerge ==
    [][Builds =>
          /\ DOMAIN tables'[NewClass].store =
                 DOMAIN body.own
                     \cup {n \in HNames : Providers(body.bases, n) # {}}
          /\ \A n \in DOMAIN tables'[NewClass].store :
                 tables'[NewClass].store[n] =
                     IF n \in DOMAIN body.own
                     THEN body.own[n]
                     ELSE tables[body.bases[LastProvider(body.bases, n)]].store[n]]_vars

\* C14: Handle.invoke of a name that the table of the instance's class
\* does not hold raises KeyError and runs no handler.
AbsentNameRaises ==
    (hout.cls # 0 /\ hout.name \notin DOMAIN tables[hout.cls].store) =>
        (hout.err = "KeyError" /\ hout.ran = NoFunc)

\* invoke raised for a name that the table of another class holds
AbsentNameRaisesWitness ==
    /\ hout.cls # 0
    /\ hout.err = "KeyError"
    /\ \E d \in Classes : hout.name \in DOMAIN tables[d].store

\* C16: once a class is built, no function its body tagged with event is
\* left in its namespace, whatever name it was tagged under, and the
\* table holds it.
TaggedLeaveNamespace ==
    \A c \in Classes :
        \A n \in DOMAIN tables[c].own :
            /\ \A m \in DOMAIN tables[c].space :
                   tables[c].space[m] # tables[c].own[n]
            /\ n \in DOMAIN tables[c].store
            /\ tables[c].store[n] = tables[c].own[n]

\* C19: loading is empty whenever a class body starts to run, and the
\* table of a class holds nothing but entries of its bases' tables and
\* functions tagged in its own body.
StagingStartsEmpty ==
    [][/\ \A bases \in BaseLists : BodyBegin(bases) => loading = EmptyDict
       /\ Builds =>
             \A n \in DOMAIN tables'[NewClass].store :
                \/ /\ n \in DOMAIN body.own
                   /\ tables'[NewClass].store[n] = body.own[n]
                \/ \E i \in Providers(body.bases, n) :
                      tables'[NewClass].store[n] = tables[body.bases[i]].store[n]]_vars

\* the one-shot registrations this registry made with a callback: each
\* got an Event of its own
WithCallback == {i \in 1..Len(waits) : \A j \in 1..(i - 1) : waits[j].ev # waits[i].ev}

\* the callback of the latest of them, None when there is none
OwnLast ==
    IF WithCallback = {} THEN None
    ELSE waits[CHOOSE i \in WithCallback : \A j \in WithCallback : j <= i].f

\* C15: wait(name)(signal) registers under the name the callback of the
\* latest one-shot registration this registry made with a callback,
\* whatever other registries registered in between.
SignalTakesOwnLast ==
    [][\A n \in RawNames, e \in 1..MaxEvents :
          (Wait(Nm(n), Ev(e)) /\ OwnLast # None) =>
              points'[parse(n)] = Append(points[parse(n)], OwnLast)]_vars

\* C17: an invoke that returns has called every callback that was in the
\* list when it began once, also when callbacks removed callbacks from
\* the list during the fan-out.
EachCalledOnce ==
    InvokeOk => \A f \in Funcs : Count(inv.called, f) = Count(inv.snap, f)

\* C18: a wait that raises leaves every callback list as it was before
\* the call.
FailedWaitLeavesLists ==
    [][/\ \A f \in Funcs :
             (Wait(Fn(f), Fn(f)) /\ out'.err # "ok") => points' = points
       /\ \A n \in RawNames, f \in Funcs :
             (Wait(Nm(n), Fn(f)) /\ out'.err # "ok") => points' = points
       /\ \A n \in RawNames, e \in 1..MaxEvents :
             (Wait(Nm(n), Ev(e)) /\ out'.err # "ok") => points' = points]_vars

\* C20: an invoke whose callbacks all return ends, also when callbacks
\* register callbacks under its name while it runs.
InvokeEnds == (rest.pc = "run") ~> (rest.pc = "done")

====
